---- MODULE Spec2Model ----
(***************************************************************************)
(* A model of xmltextnorm.py: parse an XML document, flatten the text of   *)
(* its elements, normalize whitespace, break after punctuation, wrap the   *)
(* lines and write them out.                                               *)
(*                                                                         *)
(* A unicode string is a sequence of one-character strings.  A byte string *)
(* is a sequence of integers 0..255.  An optional string (Python's None or *)
(* a string) is a sequence of at most one string.                          *)
(***************************************************************************)
EXTENDS Integers, Sequences, FiniteSets, TLC

VARIABLES pc, input, dest, tree, text, flat, lines, outlines, opened, written,
          line, sublines

vars == <<pc, input, dest, tree, text, flat, lines, outlines, opened, written,
          line, sublines>>

\* ---------------------------------------------------------------- bounds

\* Most elements of an input document.
MaxNodes == 3

\* Longest flattened text the normalizer is started on.
MaxTextLen == 4

\* Most segments (runs of letters, single spaces) an input line is built of.
MaxSegs == 5

\* ------------------------------------------------------ program constants

\* splitline: a remaining segment shorter than this is emitted whole.
WrapWidth == 72

\* splitline: the offset from which a space to break at is searched.
BreakFrom == 60

SP == " "
NL == "\n"
TAB == "\t"

\* for p in u'.,;:!?'
Marks == <<".", ",", ";", ":", "!", "?">>

MarkSet == {Marks[i] : i \in 1..Len(Marks)}

\* ENTITIES, with the characters of the literals as the file stores them.
ENTITIES ==
  [mdash |-> <<"U+00E2", "U+20AC", "U+201D">>, hellip |-> <<".", ".", ".">>]

\* ------------------------------------------------------- Python strings

None == <<>>

Some(s) == <<s>>

\* (x or u'')
OrEmpty(o) == IF o = None THEN <<>> ELSE o[1]

Min(a, b) == IF a < b THEN a ELSE b

\* s[a:b] for 0 <= a
Slice(s, a, b) == SubSeq(s, a + 1, Min(b, Len(s)))

\* s[a:] for 0 <= a
SliceFrom(s, a) == SubSeq(s, a + 1, Len(s))

\* Whether old occurs in s at the 1-based position i.
MatchAt(s, old, i) ==
  /\ i + Len(old) - 1 <= Len(s)
  /\ \A k \in 1..Len(old) : s[i + k - 1] = old[k]

\* old in s
Contains(s, old) == \E i \in 1..Len(s) : MatchAt(s, old, i)

RECURSIVE ReplaceFrom(_, _, _, _)
ReplaceFrom(s, old, new, i) ==
  IF i > Len(s) THEN <<>>
  ELSE IF MatchAt(s, old, i) THEN new \o ReplaceFrom(s, old, new, i + Len(old))
  ELSE <<s[i]>> \o ReplaceFrom(s, old, new, i + 1)

\* A replace that stops after the first occurrence.
ReplaceFirstOnly(s, old, new) ==
  IF Contains(s, old)
  THEN LET i == CHOOSE j \in 1..Len(s) :
                  MatchAt(s, old, j) /\ \A k \in 1..(j - 1) : ~MatchAt(s, old, k)
       IN SubSeq(s, 1, i - 1) \o new \o SubSeq(s, i + Len(old), Len(s))
  ELSE s

\* s.replace(old, new) for a non-empty old: every occurrence, left to right,
\* not overlapping.
Replace(s, old, new) == ReplaceFrom(s, old, new, 1)

\* s.find(c) for a one-character c: the 0-based offset of the first one, or -1.
Find(s, c) ==
  IF \E i \in 1..Len(s) : s[i] = c
  THEN (CHOOSE i \in 1..Len(s) : s[i] = c /\ \A k \in 1..(i - 1) : s[k] # c) - 1
  ELSE -1

RECURSIVE SplitFrom(_, _, _)
SplitFrom(s, c, cur) ==
  IF s = <<>> THEN <<cur>>
  ELSE IF Head(s) = c THEN <<cur>> \o SplitFrom(Tail(s), c, <<>>)
  ELSE SplitFrom(Tail(s), c, Append(cur, Head(s)))

\* s.split(c) for a one-character c.
SplitStr(s, c) == SplitFrom(s, c, <<>>)

RECURSIVE Join(_, _)
\* sep.join(parts)
Join(parts, sep) ==
  IF parts = <<>> THEN <<>>
  ELSE IF Len(parts) = 1 THEN parts[1]
  ELSE parts[1] \o sep \o Join(Tail(parts), sep)

\* ------------------------------------------------------------- splitline

\* A threshold check that takes the search offset for the width.
IsShortAtBreakFrom(L) == Len(L) < BreakFrom

\* len(L) < 72
IsShort(L) == Len(L) < WrapWidth

\* L[60:].find(u' ')
FindBreak(L) == Find(SliceFrom(L, BreakFrom), SP)

\* A prefix that keeps the space it breaks at.
BreakHeadWithSpace(L, sPos) == Slice(L, 0, BreakFrom + sPos + 1)

\* L[:60+sPos]
BreakHead(L, sPos) == Slice(L, 0, BreakFrom + sPos)

\* A remainder that keeps the space it breaks at.
BreakRestWithSpace(L, sPos) == SliceFrom(L, BreakFrom + sPos)

\* L[60+sPos + 1:]
BreakRest(L, sPos) == SliceFrom(L, BreakFrom + sPos + 1)

RECURSIVE SplitLoop(_, _)
\* The while loop of splitline, from the remaining segment L and the list out.
\* (words = L.split(u' ') is assigned and never read.)
SplitLoop(L, out) ==
  IF L = <<>> THEN out
  ELSE IF IsShort(L) THEN SplitLoop(<<>>, Append(out, L))
  ELSE LET sPos == FindBreak(L)
       IN IF sPos >= 0
          THEN SplitLoop(BreakRest(L, sPos), Append(out, BreakHead(L, sPos)))
          ELSE SplitLoop(<<>>, Append(out, L))

splitline(l) == SplitLoop(l, <<>>)

RECURSIVE WrapAll(_)
\* for line in lines: outlines.extend(splitline(line))
WrapAll(ls) == IF ls = <<>> THEN <<>> ELSE splitline(Head(ls)) \o WrapAll(Tail(ls))

\* ------------------------------------------------------------ the parser

\* Entity references the inputs use, and the names they refer to.
EntityRefs == {"&mdash;", "&hellip;", "&nbsp;", "&amp;"}

RefName(tok) ==
  CASE tok = "&mdash;" -> "mdash"
    [] tok = "&hellip;" -> "hellip"
    [] tok = "&nbsp;" -> "nbsp"
    [] tok = "&amp;" -> "amp"
    [] OTHER -> "none"

\* The entities XML itself defines (here: those the inputs use).
StandardEntities == [amp |-> <<"&">>]

\* for k in ENTITIES: parser.entity[k] = ENTITIES[k]
ParserEntity == ENTITIES

\* Whether the parser can resolve the token.
Resolvable(tok) ==
  tok \in EntityRefs =>
    RefName(tok) \in (DOMAIN StandardEntities) \cup (DOMAIN ParserEntity)

\* The characters the parser delivers for a token of the source.
Resolve(tok) ==
  IF tok \notin EntityRefs THEN <<tok>>
  ELSE IF RefName(tok) \in DOMAIN StandardEntities
       THEN StandardEntities[RefName(tok)]
       ELSE ParserEntity[RefName(tok)]

RECURSIVE ResolveAll(_)
ResolveAll(raw) ==
  IF raw = <<>> THEN <<>> ELSE Resolve(Head(raw)) \o ResolveAll(Tail(raw))

\* An element's text or tail as parsed: None stays None.
ParsedText(o) == IF o = None THEN None ELSE Some(ResolveAll(o[1]))

\* Whether tree.parse(inf, parser=parser) succeeds on the input.
Parses(inp) ==
  /\ inp.syntaxOk
  /\ \A i \in 1..inp.n :
       /\ \A k \in 1..Len(OrEmpty(inp.text[i])) : Resolvable(OrEmpty(inp.text[i])[k])
       /\ \A k \in 1..Len(OrEmpty(inp.tail[i])) : Resolvable(OrEmpty(inp.tail[i])[k])

NoTree == [n |-> 0, parent |-> <<>>, text |-> <<>>, tail |-> <<>>]

\* The element tree of a well-formed input.
ParseTree(inp) ==
  [n |-> inp.n, parent |-> inp.parent,
   text |-> [i \in 1..inp.n |-> ParsedText(inp.text[i])],
   tail |-> [i \in 1..inp.n |-> ParsedText(inp.tail[i])]]

\* ---------------------------------------------------------- the flattener

\* The children of element i, in document order.
Children(t, i) == SelectSeq([j \in 1..t.n |-> j], LAMBDA j : t.parent[j] = i)

RECURSIVE Iter(_, _), IterList(_, _)
\* Element.iter: the element itself, then each child's iteration in turn.
Iter(t, i) == <<i>> \o IterList(t, Children(t, i))

IterList(t, cs) ==
  IF cs = <<>> THEN <<>> ELSE Iter(t, Head(cs)) \o IterList(t, Tail(cs))

\* tree.getiterator(u"*"): every element, from the root.
Paras(t) == Iter(t, 1)

\* (p.text or u'') + (p.tail or u'')
Contribution(t, p) == OrEmpty(t.text[p]) \o OrEmpty(t.tail[p])

\* [((p.text or u'') + (p.tail or u'')) for p in paras]
Parts(t) == [k \in 1..Len(Paras(t)) |-> Contribution(t, Paras(t)[k])]

\* u' '.join([...])
FlatText(t) == Join(Parts(t), <<SP>>)

\* --------------------------------------------------------- the normalizer

\* text.replace(u'%s ' % p, u'%s\n' % p) with the space left out of the pattern.
BreakPatternNoSpace(p) == <<p>>

\* u'%s ' % p
BreakPattern(p) == <<p, SP>>

\* u'%s\n' % p
BreakReplacement(p) == <<p, NL>>

RECURSIVE BreakLoop(_, _)
\* for p in u'.,;:!?': text = text.replace(...), from the k-th mark on.
BreakLoop(s, k) ==
  IF k > Len(Marks) THEN s
  ELSE BreakLoop(Replace(s, BreakPattern(Marks[k]), BreakReplacement(Marks[k])), k + 1)

\* ------------------------------------------------------------ the output

\* The code point of a character.
Ord(c) ==
  CASE c = TAB -> 9 [] c = NL -> 10 [] c = SP -> 32 [] c = "!" -> 33
    [] c = "&" -> 38 [] c = "," -> 44 [] c = "." -> 46 [] c = ":" -> 58
    [] c = ";" -> 59 [] c = "?" -> 63 [] c = "a" -> 97 [] c = "b" -> 98
    [] c = "c" -> 99 [] c = "x" -> 120 [] c = "U+00E2" -> 226
    [] c = "U+201D" -> 8221 [] c = "U+20AC" -> 8364

\* The UTF-8 bytes of a code point below 65536.
Utf8(cp) ==
  IF cp < 128 THEN <<cp>>
  ELSE IF cp < 2048 THEN <<192 + (cp \div 64), 128 + (cp % 64)>>
  ELSE <<224 + (cp \div 4096), 128 + ((cp \div 64) % 64), 128 + (cp % 64)>>

RECURSIVE Encode(_)
\* s.encode('UTF-8')
Encode(s) == IF s = <<>> THEN <<>> ELSE Utf8(Ord(Head(s))) \o Encode(Tail(s))

\* u'\n'.join(outlines).encode('UTF-8')
FileData(ols) == Encode(Join(ols, <<NL>>))

\* u'\n'.join(outlines + ['']).encode('UTF-8')
StreamData(ols) == Encode(Join(ols \o <<<<>>>>, <<NL>>))

\* ------------------------------------------------------------ the inputs

\* Texts of an element as the document spells them (None: no text).
TextChoices == {None, Some(<<SP>>), Some(<<"a">>), Some(<<"b", ".">>)}

\* The root's text may also hold entity references.
RootTextChoices == TextChoices \cup {Some(<<"&mdash;">>), Some(<<"a", "&nbsp;">>)}

TailChoices == {None, Some(<<"c">>)}

\* Element 1 is the root; every other element's parent is an earlier element.
ParentVecs(n) ==
  {p \in [1..n -> 0..n] : p[1] = 0 /\ \A i \in 2..n : p[i] \in 1..(i - 1)}

\* Texts of the elements of a document of n elements.
TextsOf(n) ==
  {f \in [1..n -> RootTextChoices] : \A i \in 2..n : f[i] \in TextChoices}

\* Their tails: the parser leaves the root without a tail.
TailsOf(n) == {f \in [1..n -> TailChoices] : f[1] = None}

Doc(s, n, p, t, l) == [syntaxOk |-> s, n |-> n, parent |-> p, text |-> t, tail |-> l]

NoInput == [syntaxOk |-> TRUE, n |-> 0, parent |-> <<>>, text |-> <<>>, tail |-> <<>>]

Dests == {"path", "stream"}

\* Flattened texts the normalizer is started on.
NormAlphabet == {"a", SP, TAB, NL, ".", ";", "?"}

NormTexts == UNION {[1..k -> NormAlphabet] : k \in 0..MaxTextLen}

Run(n) == [i \in 1..n |-> "x"]

Segs == {Run(1), Run(11), Run(59), Run(60), <<SP>>}

RECURSIVE LinesOf(_)
LinesOf(k) ==
  IF k = 0 THEN {<<>>}
  ELSE LET shorter == LinesOf(k - 1)
       IN shorter \cup {s \o l : s \in Segs, l \in shorter}

\* Lines splitline is called on.
InputLines == LinesOf(MaxSegs)

\* ------------------------------------------------------------ the program

Idle ==
  /\ tree = NoTree /\ text = <<>> /\ flat = <<>> /\ lines = <<>>
  /\ outlines = <<>> /\ opened = FALSE /\ written = <<>> /\ sublines = <<>>

\* xmltextnorm(inf, outf) is called.
Init ==
  /\ pc = "start"
  /\ \E n \in 1..MaxNodes :
       \E s \in BOOLEAN, p \in ParentVecs(n), t \in TextsOf(n), l \in TailsOf(n) :
         input = Doc(s, n, p, t, l)
  /\ dest \in Dests
  /\ line = <<>>
  /\ Idle

\* A parse error that is raised after the output path has been opened.
ParseErrorAfterOpen ==
  /\ pc = "start"
  /\ ~Parses(input)
  /\ pc' = "aborted"
  /\ opened' = (dest = "path")
  /\ UNCHANGED <<input, dest, tree, text, flat, lines, outlines, written, line, sublines>>

\* tree.parse raises; nothing of xmltextnorm runs after it.
ParseError ==
  /\ pc = "start"
  /\ ~Parses(input)
  /\ pc' = "aborted"
  /\ UNCHANGED <<input, dest, tree, text, flat, lines, outlines, opened, written,
                 line, sublines>>

\* tree.parse(inf, parser=parser)
Parse ==
  /\ pc = "start"
  /\ Parses(input)
  /\ tree' = ParseTree(input)
  /\ pc' = "flatten"
  /\ UNCHANGED <<input, dest, text, flat, lines, outlines, opened, written, line, sublines>>

\* paras = tree.getiterator(u"*"); text = u' '.join([...])
Flatten ==
  /\ pc = "flatten"
  /\ text' = FlatText(tree)
  /\ flat' = text'
  /\ pc' = "replace_nl"
  /\ UNCHANGED <<input, dest, tree, lines, outlines, opened, written, line, sublines>>

\* text = text.replace(u'\n', u' ')
ReplaceNewlines ==
  /\ pc = "replace_nl"
  /\ text' = Replace(text, <<NL>>, <<SP>>)
  /\ pc' = "replace_tab"
  /\ UNCHANGED <<input, dest, tree, flat, lines, outlines, opened, written, line, sublines>>

\* text = text.replace(u'\t', u' ')
ReplaceTabs ==
  /\ pc = "replace_tab"
  /\ text' = Replace(text, <<TAB>>, <<SP>>)
  /\ pc' = "collapse"
  /\ UNCHANGED <<input, dest, tree, flat, lines, outlines, opened, written, line, sublines>>

\* while u'  ' in text: text = text.replace(u'  ', u' ')
CollapsePass ==
  /\ pc = "collapse"
  /\ Contains(text, <<SP, SP>>)
  /\ text' = Replace(text, <<SP, SP>>, <<SP>>)
  /\ UNCHANGED <<pc, input, dest, tree, flat, lines, outlines, opened, written,
                 line, sublines>>

\* The while loop ends.
CollapseDone ==
  /\ pc = "collapse"
  /\ ~Contains(text, <<SP, SP>>)
  /\ pc' = "breaks"
  /\ UNCHANGED <<input, dest, tree, text, flat, lines, outlines, opened, written,
                 line, sublines>>

\* for p in u'.,;:!?': text = text.replace(u'%s ' % p, u'%s\n' % p)
SentenceBreaks ==
  /\ pc = "breaks"
  /\ text' = BreakLoop(text, 1)
  /\ pc' = "split"
  /\ UNCHANGED <<input, dest, tree, flat, lines, outlines, opened, written, line, sublines>>

\* lines = text.split(u'\n')
SplitLines ==
  /\ pc = "split"
  /\ lines' = SplitStr(text, NL)
  /\ pc' = "wrap"
  /\ UNCHANGED <<input, dest, tree, text, flat, outlines, opened, written, line, sublines>>

\* outlines = []; for line in lines: outlines.extend(splitline(line))
WrapLines ==
  /\ pc = "wrap"
  /\ outlines' = WrapAll(lines)
  /\ pc' = "write"
  /\ UNCHANGED <<input, dest, tree, text, flat, lines, opened, written, line, sublines>>

\* outf is a path: with open(outf, 'w') as f: f.write(...)
WriteFile ==
  /\ pc = "write"
  /\ dest = "path"
  /\ opened' = TRUE
  /\ written' = Append(written, FileData(outlines))
  /\ pc' = "done"
  /\ UNCHANGED <<input, dest, tree, text, flat, lines, outlines, line, sublines>>

\* outf is a stream: outf.write(...)
WriteStream ==
  /\ pc = "write"
  /\ dest # "path"
  /\ written' = Append(written, StreamData(outlines))
  /\ pc' = "done"
  /\ UNCHANGED <<input, dest, tree, text, flat, lines, outlines, opened, line, sublines>>

Next ==
  \/ Parse
  \/ ParseError
  \/ Flatten
  \/ ReplaceNewlines
  \/ ReplaceTabs
  \/ CollapsePass
  \/ CollapseDone
  \/ SentenceBreaks
  \/ SplitLines
  \/ WrapLines
  \/ WriteFile
  \/ WriteStream

Spec == Init /\ [][Next]_vars

\* The normalizer alone, started on a flattened text.
InitNorm ==
  /\ pc = "replace_nl"
  /\ input = NoInput
  /\ dest = "stream"
  /\ line = <<>>
  /\ tree = NoTree
  /\ text \in NormTexts
  /\ flat = text
  /\ lines = <<>> /\ outlines = <<>> /\ opened = FALSE /\ written = <<>>
  /\ sublines = <<>>

NextNorm ==
  \/ ReplaceNewlines
  \/ ReplaceTabs
  \/ CollapsePass
  \/ CollapseDone
  \/ SentenceBreaks
  \/ SplitLines

SpecNorm == InitNorm /\ [][NextNorm]_vars

\* splitline alone, called on a line.
InitSplit ==
  /\ pc = "splitline"
  /\ input = NoInput
  /\ dest = "stream"
  /\ line \in InputLines
  /\ Idle

\* return out
CallSplitline ==
  /\ pc = "splitline"
  /\ sublines' = splitline(line)
  /\ pc' = "returned"
  /\ UNCHANGED <<input, dest, tree, text, flat, lines, outlines, opened, written, line>>

NextSplit == CallSplitline

SpecSplit == InitSplit /\ [][NextSplit]_vars

\* ------------------------------------------------------- flatten order

RECURSIVE IsAncestor(_, _, _)
\* Whether element a is a proper ancestor of element j.
IsAncestor(t, a, j) ==
  IF t.parent[j] = 0 THEN FALSE
  ELSE t.parent[j] = a \/ IsAncestor(t, a, t.parent[j])

\* The element and everything inside it.
Inside(t, e) == {e} \cup {j \in 1..t.n : IsAncestor(t, e, j)}

\* The place of element p in the iteration.
PosOf(t, p) == CHOOSE k \in 1..Len(Paras(t)) : Paras(t)[k] = p

RECURSIVE PartStart(_, _)
\* The 1-based offset in the flattened text of the k-th contribution.
PartStart(t, k) ==
  IF k = 1 THEN 1 ELSE PartStart(t, k - 1) + Len(Parts(t)[k - 1]) + 1

TextStart(t, p) == PartStart(t, PosOf(t, p))

TextEnd(t, p) == TextStart(t, p) + Len(OrEmpty(t.text[p])) - 1

TailStart(t, p) == TextStart(t, p) + Len(OrEmpty(t.text[p]))

TailEnd(t, p) == TailStart(t, p) + Len(OrEmpty(t.tail[p])) - 1

\* Every text and tail stands in the flattened text at the offsets above.
PiecesAtOffsets ==
  pc = "replace_nl" /\ tree.n > 0 =>
    \A p \in 1..tree.n :
      /\ SubSeq(flat, TextStart(tree, p), TextEnd(tree, p)) = OrEmpty(tree.text[p])
      /\ SubSeq(flat, TailStart(tree, p), TailEnd(tree, p)) = OrEmpty(tree.tail[p])

\* C1: in the flattened text, for every element E that has a tail and a child
\* with text, E's text and the text and tail of every descendant of E stand
\* before E's tail.
C1_TailAfterContent ==
  pc = "replace_nl" /\ tree.n > 0 =>
    \A e \in 1..tree.n :
      (/\ tree.tail[e] # None
       /\ \E c \in 1..tree.n : tree.parent[c] = e /\ tree.text[c] # None)
      => \A d \in Inside(tree, e) :
           /\ tree.text[d] # None => TextEnd(tree, d) < TailStart(tree, e)
           /\ (d # e /\ tree.tail[d] # None) => TailEnd(tree, d) < TailStart(tree, e)

NoWhitespace(s) == \A i \in 1..Len(s) : s[i] \notin {SP, TAB, NL}

\* C2: a root with text X and one child with text Y and tail Z (non-empty,
\* without whitespace) flattens to X, Y and Z joined by single spaces.
C2_TextAndTailSeparate ==
  (/\ pc = "replace_nl"
   /\ tree.n = 2
   /\ tree.text[1] # None /\ tree.text[2] # None /\ tree.tail[2] # None
   /\ NoWhitespace(tree.text[1][1] \o tree.text[2][1] \o tree.tail[2][1]))
  => flat = tree.text[1][1] \o <<SP>> \o tree.text[2][1] \o <<SP>> \o tree.tail[2][1]

\* ------------------------------------------------------------- splitline

HasSpace(s) == \E i \in 1..Len(s) : s[i] = SP

C6_ShortLineOneSubline ==
  pc = "returned" /\ Len(line) < 72 => sublines = <<line>>

\* C6, amended: a non-empty line shorter than 72 comes back as exactly one
\* sub-line equal to it; the empty line gives no sub-line.
C6_ShortLinePassthrough ==
  pc = "returned" /\ Len(line) < 72 =>
    IF line = <<>> THEN sublines = <<>> ELSE sublines = <<line>>

\* A line of 60 to 71 characters with a space at offset 60 or later came back.
C6_Witness ==
  /\ pc = "returned"
  /\ Len(line) < 72
  /\ HasSpace(SliceFrom(line, 60))
  /\ sublines = <<line>>

\* C10: for a line that does not end with a space, the sub-lines joined by
\* single spaces are the line, and the empty line gives no sub-line.
C10_JoinRestoresLine ==
  pc = "returned" /\ (line = <<>> \/ line[Len(line)] # SP) =>
    /\ Join(sublines, <<SP>>) = line
    /\ line = <<>> => sublines = <<>>

\* A line not ending with a space was broken twice.
C10_Witness ==
  /\ pc = "returned"
  /\ line # <<>>
  /\ line[Len(line)] # SP
  /\ Len(sublines) >= 3

\* ------------------------------------------------------------ the output

\* C4: what is written to a stream ends with a newline.
C4_StreamEndsWithNewline ==
  pc = "done" /\ dest = "stream" =>
    /\ written # <<>>
    /\ written[Len(written)] # <<>>
    /\ written[Len(written)][Len(written[Len(written)])] = 10

\* C5: when parsing fails the run aborts with the destination untouched, and
\* the destination is untouched until wrapping has completed.
C5_NoOutputOnParseError ==
  /\ ~Parses(input) => pc \in {"start", "aborted"} /\ ~opened /\ written = <<>>
  /\ pc # "done" => ~opened /\ written = <<>>

\* A run to a path aborted on an entity the parser does not know.
C5_Witness ==
  /\ pc = "aborted"
  /\ dest = "path"
  /\ input.syntaxOk

\* --------------------------------------------------------- the normalizer

\* No tab, no newline, no two consecutive spaces.
Clean(s) ==
  /\ \A i \in 1..Len(s) : s[i] \notin {TAB, NL}
  /\ ~Contains(s, <<SP, SP>>)

\* A mark immediately followed by a space, at the 1-based position i.
MarkSpaceAt(s, i) == i < Len(s) /\ s[i] \in MarkSet /\ s[i + 1] = SP

\* C7 as stated: a text without tab, newline and double space is normalized
\* to itself.
C7_CleanTextUnchanged ==
  pc = "split" /\ Clean(flat) => text = flat

\* C7, amended: a text without tab, newline, double space and without a mark
\* followed by a space is normalized to itself.
C7_CleanTextWithoutBreaksUnchanged ==
  (/\ pc = "split"
   /\ Clean(flat)
   /\ \A i \in 1..Len(flat) : ~MarkSpaceAt(flat, i))
  => text = flat

\* Such a text, with a space and a mark in it, was normalized.
C7_Witness ==
  /\ pc = "split"
  /\ Clean(flat)
  /\ \A i \in 1..Len(flat) : ~MarkSpaceAt(flat, i)
  /\ HasSpace(flat)
  /\ \E i \in 1..Len(flat) : flat[i] \in MarkSet

\* C8: the normalized text has no tab and no two consecutive spaces, and each
\* newline in it follows one of the six marks.
C8_NormalizedShape ==
  pc \in {"split", "wrap"} =>
    /\ \A i \in 1..Len(text) : text[i] # TAB
    /\ ~Contains(text, <<SP, SP>>)
    /\ \A i \in 1..Len(text) :
         text[i] = NL => i > 1 /\ text[i - 1] \in {".", ",", ";", ":", "!", "?"}

\* A text with tabs and a run of spaces was normalized, with a break in it.
C8_Witness ==
  /\ pc = "split"
  /\ \E i \in 1..Len(flat) : flat[i] = TAB
  /\ Contains(flat, <<SP, SP>>)
  /\ \E i \in 1..Len(text) : text[i] = NL

\* The collapsed text with the space after each mark made a newline.
BrokenAtMarks(s) ==
  [i \in 1..Len(s) |-> IF i > 1 /\ MarkSpaceAt(s, i - 1) THEN NL ELSE s[i]]

Example == <<"a", "b", SP, "c", ".", SP, "a", "b", SP, "c", ".">>

\* C9: sentence-break insertion makes a newline of exactly the spaces that
\* follow a mark and changes nothing else; the lines are one more than the
\* mark-then-space occurrences; two sentences give two lines.
C9_BreaksExactlyAfterMarks ==
  [][pc = "breaks" =>
       /\ text' = BrokenAtMarks(text)
       /\ Len(SplitStr(text', NL)) =
            1 + Cardinality({i \in 1..Len(text) : MarkSpaceAt(text, i)})
       /\ SplitStr(BreakLoop(Example, 1), NL) =
            <<SubSeq(Example, 1, 5), SubSeq(Example, 7, 11)>>]_vars

\* A break was made, and the mark ending the text made none.
C9_Witness ==
  /\ pc = "split"
  /\ \E i \in 1..Len(text) : text[i] = NL
  /\ text # <<>>
  /\ text[Len(text)] \in MarkSet

====
